---- MODULE Spec2Model ----
(***************************************************************************)
(* Model of the movie reservation API (src/app.py) and of its mock payment *)
(* gateway (src/payment_service.py).                                       *)
(*                                                                         *)
(* The persistent store is the tuple of tables theaters, showtimes, seats  *)
(* and bookings.  The administrative handlers (create_theater,             *)
(* create_showtime, add_seats_to_theater) issue one commit each and are    *)
(* one action each.  book_ticket issues three queries, one blocking call   *)
(* to the payment gateway, one commit and one broadcast; the hosting       *)
(* server runs requests concurrently, so book_ticket is one action per     *)
(* store access, and requests of different workers interleave between      *)
(* them.  The handlers for movies, users and reviews touch none of these   *)
(* tables and are not modelled; neither is the maintenance endpoint        *)
(* /setup-db, which drops and recreates every table: the properties below  *)
(* are about the store between two resets, where no row is ever deleted.   *)
(***************************************************************************)
EXTENDS Integers, Sequences, FiniteSets, Bags, TLC

(***************************************************************************)
(* Bounds of the model.                                                    *)
(***************************************************************************)
NumWorkers == 2
MaxTheaters == 2
MaxShowtimes == 2
MaxSeats == 2
MaxSeatsPerRow == 1

Workers == 1..NumWorkers

\* Row names an administrator submits, and the rows lists built from them
\* (a single row, or one row named twice).
Rows == {"A", "B"}
RowLists(rows) == {<<r>> : r \in rows} \cup {<<r, r>> : r \in rows}

\* Seat codes a client asks for.
SeatCodes == {"A1", "B1"}

\* Showtime ids a client asks for.
ShowtimeIds == 1..MaxShowtimes

VARIABLES
    theaters,          \* Theater table: the set of ids
    showtimes,         \* Showtime table: sequence of rows, id = position
    seats,             \* Seat table: bag of rows (the id column is never read)
    bookings,          \* Booking table: sequence of rows, id = position
    events,            \* seat_booked events broadcast so far, in order
    issued,            \* number of transaction ids the gateway has generated
    pc,                \* per worker: where its book_ticket request stands
    showtime,          \* per worker: the Showtime row its request loaded
    data,              \* per worker: the JSON body of its request
    payment_response,  \* per worker: what process_payment returned
    calls,             \* per worker: calls of process_payment in this request
    new_booking,       \* per worker: id of the Booking this request committed
    response           \* per worker: the HTTP response of the request

vars == <<theaters, showtimes, seats, bookings, events, issued, pc, showtime, data,
          payment_response, calls, new_booking, response>>

store == <<theaters, showtimes, seats, bookings>>
locals == <<data, payment_response, calls, new_booking, response>>

(***************************************************************************)
(* Payment gateway (src/payment_service.py).                               *)
(***************************************************************************)
CardNumberLength == 16

DigitChars == {"0", "1", "2", "3", "4", "5", "6", "7", "8", "9"}

InvalidCardError == "Invalid Card Number: Must be 16 digits."
DeclinedError == "Transaction Declined: Insufficient Funds."

\* Card numbers as the characters of the JSON string sent by the client.
DigitsOfLength(n) == [i \in 1..n |-> "4"]
WithLetter(n) == [i \in 1..n |-> IF i = n THEN "x" ELSE "4"]

CardNumbers ==
    { DigitsOfLength(CardNumberLength),
      DigitsOfLength(CardNumberLength - 1),
      WithLetter(CardNumberLength) }

\* card_details objects: with a number, or without the key.
NoCardDetails == [k \in {} |-> <<>>]
CardDetails == {[number |-> n] : n \in CardNumbers} \cup {NoCardDetails}

\* card_details.get('number', '')
CardNumberOf(card_details) ==
    IF "number" \in DOMAIN card_details THEN card_details.number ELSE <<>>

\* uuid4-based receipt: the k-th generated id, distinct from all others.
TransactionId(k) == "txn_" \o ToString(k)

\* process_payment(card_details, amount); decline is the outcome of
\* random.random() < 0.1, k the number of ids generated before the call.
process_payment(card_details, amount, decline, k) ==
    IF Len(CardNumberOf(card_details)) # CardNumberLength
    THEN [success |-> FALSE, error |-> InvalidCardError]
    ELSE IF decline
         THEN [success |-> FALSE, error |-> DeclinedError]
         ELSE [success |-> TRUE, transaction_id |-> TransactionId(k + 1),
               error |-> "None"]

(***************************************************************************)
(* Initial state: empty tables, every worker idle.                         *)
(***************************************************************************)
NoData == [showtime_id |-> 0, seat_code |-> "", card_details |-> NoCardDetails]
NoShowtime == [id |-> 0, theater_id |-> 0, price |-> 0]
NoPayment == [success |-> FALSE, error |-> ""]
NoResponse == [status |-> 0, body |-> [message |-> ""]]

Init ==
    /\ theaters = {}
    /\ showtimes = <<>>
    /\ seats = EmptyBag
    /\ bookings = <<>>
    /\ events = <<>>
    /\ issued = 0
    /\ pc = [p \in Workers |-> "idle"]
    /\ showtime = [p \in Workers |-> NoShowtime]
    /\ data = [p \in Workers |-> NoData]
    /\ payment_response = [p \in Workers |-> NoPayment]
    /\ calls = [p \in Workers |-> 0]
    /\ new_booking = [p \in Workers |-> 0]
    /\ response = [p \in Workers |-> NoResponse]

(***************************************************************************)
(* Administrative handlers: one commit each.                               *)
(***************************************************************************)
\* POST /theaters: the new row takes the next id.
create_theater ==
    /\ Cardinality(theaters) < MaxTheaters
    /\ theaters' = theaters \cup {Cardinality(theaters) + 1}
    /\ UNCHANGED <<showtimes, seats, bookings, events, issued, pc, showtime, locals>>

\* POST /showtimes: theater_id is a foreign key into the Theater table.
create_showtime(theater_id, price) ==
    /\ Len(showtimes) < MaxShowtimes
    /\ theater_id \in theaters
    /\ showtimes' = Append(showtimes, [id |-> Len(showtimes) + 1,
                                       theater_id |-> theater_id,
                                       price |-> price])
    /\ UNCHANGED <<theaters, seats, bookings, events, issued, pc, showtime, locals>>

\* code = f"{row}{num}"
SeatCode(row, num) == row \o ToString(num)

\* The Seat rows the inner loop adds for one row name.
RowSeats(theater_id, row, seats_per_row) ==
    SetToBag({ [row |-> row, number |-> num, code |-> SeatCode(row, num),
                theater_id |-> theater_id] : num \in 1..seats_per_row })

\* The Seat rows the outer loop adds for the rows list, in order.
RECURSIVE CreatedSeats(_, _, _)
CreatedSeats(theater_id, rows, seats_per_row) ==
    IF rows = <<>>
    THEN EmptyBag
    ELSE RowSeats(theater_id, Head(rows), seats_per_row)
         (+) CreatedSeats(theater_id, Tail(rows), seats_per_row)

\* POST /theaters/<id>/seats: 404 without a change when the theater is absent.
add_seats_to_theater(theater_id, rows, seats_per_row) ==
    /\ theater_id \in theaters
    /\ BagCardinality(seats) + Len(rows) * seats_per_row <= MaxSeats
    /\ seats' = seats (+) CreatedSeats(theater_id, rows, seats_per_row)
    /\ UNCHANGED <<theaters, showtimes, bookings, events, issued, pc, showtime, locals>>

(***************************************************************************)
(* book_ticket, POST /bookings.                                            *)
(***************************************************************************)
\* get_jwt_identity(): each worker serves the session of one user.
current_user_id(p) == p

\* Variant: the lookup is off by one row.
Showtime_get_off_by_one(showtime_id) ==
    { showtimes[i] : i \in { j \in DOMAIN showtimes : showtimes[j].id = showtime_id - 1 } }

\* Showtime.query.get(id): the rows with that primary key.
Showtime_get(showtime_id) ==
    { showtimes[i] : i \in { j \in DOMAIN showtimes : showtimes[j].id = showtime_id } }

\* Variant: the query filters by code only.
seat_exists_any_theater(theater_id, code) ==
    \E s \in BagToSet(seats) : s.code = code

\* Seat.query.filter_by(theater_id=..., code=...).first() is not None
seat_exists(theater_id, code) ==
    \E s \in BagToSet(seats) : s.theater_id = theater_id /\ s.code = code

\* Variant: the query filters by seat code only.
existing_booking_any_showtime(showtime_id, seat_code) ==
    \E i \in DOMAIN bookings : bookings[i].seat_code = seat_code

\* Variant: the query never finds a row.
existing_booking_never(showtime_id, seat_code) == FALSE

\* Booking.query.filter_by(showtime_id=..., seat_code=...).first() is not None
existing_booking(showtime_id, seat_code) ==
    \E i \in DOMAIN bookings :
        /\ bookings[i].showtime_id = showtime_id
        /\ bookings[i].seat_code = seat_code

ShowtimeNotFound == [status |-> 404, body |-> [message |-> "Showtime not found"]]

SeatDoesNotExist(seat_code) ==
    [status |-> 400,
     body |-> [message |-> "Seat " \o seat_code \o " does not exist in this theater!"]]

SeatAlreadyBooked ==
    [status |-> 400, body |-> [message |-> "Sorry, that seat is already booked!"]]

\* Variant: the gateway's message is replaced by a fixed one.
PaymentFailed_generic(payment) ==
    [status |-> 400, body |-> [message |-> "Payment Failed", error |-> "Payment error"]]

PaymentFailed(payment) ==
    [status |-> 400, body |-> [message |-> "Payment Failed", error |-> payment.error]]

BookingConfirmed(booking_id, payment) ==
    [status |-> 201,
     body |-> [message |-> "Booking confirmed!", booking_id |-> booking_id,
               transaction_id |-> payment.transaction_id]]

\* Booking(user_id=..., showtime_id=..., seat_code=...) with the id the commit assigns.
NewBooking(id, user_id, d) ==
    [id |-> id, seat_code |-> d.seat_code, user_id |-> user_id,
     showtime_id |-> d.showtime_id]

\* Payload of the seat_booked broadcast.
SeatBooked(d) == [showtime_id |-> d.showtime_id, seat_code |-> d.seat_code]

\* Request bodies: every combination in sequential use; under concurrency one
\* seat code, with a well-formed card number and one that is too short.
Requests ==
    [showtime_id : ShowtimeIds, seat_code : SeatCodes, card_details : CardDetails]

ConcurrentRequests ==
    [showtime_id : ShowtimeIds, seat_code : {"A1"},
     card_details : { [number |-> DigitsOfLength(CardNumberLength)],
                      [number |-> DigitsOfLength(CardNumberLength - 1)] }]

\* The request arrives and the showtime is looked up.
lookup_showtime(p, d) ==
    /\ pc[p] = "idle"
    /\ data' = [data EXCEPT ![p] = d]
    /\ LET found == Showtime_get(d.showtime_id) IN
       IF found = {}
       THEN /\ response' = [response EXCEPT ![p] = ShowtimeNotFound]
            /\ pc' = [pc EXCEPT ![p] = "done"]
            /\ UNCHANGED showtime
       ELSE /\ showtime' = [showtime EXCEPT ![p] = CHOOSE s \in found : TRUE]
            /\ pc' = [pc EXCEPT ![p] = "seat"]
            /\ UNCHANGED response
    /\ UNCHANGED <<store, events, issued, payment_response, calls, new_booking>>

\* Does this seat exist in this theater?
check_seat(p) ==
    /\ pc[p] = "seat"
    /\ IF ~seat_exists(showtime[p].theater_id, data[p].seat_code)
       THEN /\ response' = [response EXCEPT ![p] = SeatDoesNotExist(data[p].seat_code)]
            /\ pc' = [pc EXCEPT ![p] = "done"]
       ELSE /\ pc' = [pc EXCEPT ![p] = "avail"]
            /\ UNCHANGED response
    /\ UNCHANGED <<store, events, issued, showtime, data, payment_response, calls,
                   new_booking>>

\* Is the seat free for this showtime?
check_available(p) ==
    /\ pc[p] = "avail"
    /\ IF existing_booking(data[p].showtime_id, data[p].seat_code)
       THEN /\ response' = [response EXCEPT ![p] = SeatAlreadyBooked]
            /\ pc' = [pc EXCEPT ![p] = "done"]
       ELSE /\ pc' = [pc EXCEPT ![p] = "pay"]
            /\ UNCHANGED response
    /\ UNCHANGED <<store, events, issued, showtime, data, payment_response, calls,
                   new_booking>>

\* The blocking call to the gateway; on failure the request stops here.
pay(p, decline) ==
    /\ pc[p] = "pay"
    /\ LET r == process_payment(data[p].card_details, showtime[p].price,
                                decline, issued) IN
       /\ payment_response' = [payment_response EXCEPT ![p] = r]
       /\ calls' = [calls EXCEPT ![p] = calls[p] + 1]
       /\ issued' = IF r.success THEN issued + 1 ELSE issued
       /\ IF ~r.success
          THEN /\ response' = [response EXCEPT ![p] = PaymentFailed(r)]
               /\ pc' = [pc EXCEPT ![p] = "done"]
          ELSE /\ pc' = [pc EXCEPT ![p] = "commit"]
               /\ UNCHANGED response
    /\ UNCHANGED <<store, events, showtime, data, new_booking>>

\* Variant: the commit runs without the new row having been added.
commit_without_add(p) ==
    /\ pc[p] = "commit"
    /\ pc' = [pc EXCEPT ![p] = "emit"]
    /\ UNCHANGED <<store, events, issued, showtime, locals>>

\* db.session.add(new_booking); db.session.commit()
commit(p) ==
    /\ pc[p] = "commit"
    /\ bookings' = Append(bookings,
                          NewBooking(Len(bookings) + 1, current_user_id(p), data[p]))
    /\ new_booking' = [new_booking EXCEPT ![p] = Len(bookings) + 1]
    /\ pc' = [pc EXCEPT ![p] = "emit"]
    /\ UNCHANGED <<theaters, showtimes, seats, events, issued, showtime, data,
                   payment_response, calls, response>>

\* Variant: the response is sent without the broadcast.
emit_without_broadcast(p) ==
    /\ pc[p] = "emit"
    /\ response' = [response EXCEPT
                      ![p] = BookingConfirmed(new_booking[p], payment_response[p])]
    /\ pc' = [pc EXCEPT ![p] = "done"]
    /\ UNCHANGED <<store, events, issued, showtime, data, payment_response, calls,
                   new_booking>>

\* socketio.emit('seat_booked', ...) and the 201 response.
emit(p) ==
    /\ pc[p] = "emit"
    /\ events' = Append(events, SeatBooked(data[p]))
    /\ response' = [response EXCEPT
                      ![p] = BookingConfirmed(new_booking[p], payment_response[p])]
    /\ pc' = [pc EXCEPT ![p] = "done"]
    /\ UNCHANGED <<store, issued, showtime, data, payment_response, calls, new_booking>>

\* The response leaves the server; the worker's request-scoped state is dropped.
return(p) ==
    /\ pc[p] = "done"
    /\ pc' = [pc EXCEPT ![p] = "idle"]
    /\ showtime' = [showtime EXCEPT ![p] = NoShowtime]
    /\ data' = [data EXCEPT ![p] = NoData]
    /\ payment_response' = [payment_response EXCEPT ![p] = NoPayment]
    /\ calls' = [calls EXCEPT ![p] = 0]
    /\ new_booking' = [new_booking EXCEPT ![p] = 0]
    /\ response' = [response EXCEPT ![p] = NoResponse]
    /\ UNCHANGED <<store, events, issued>>

(***************************************************************************)
(* Specifications.                                                         *)
(***************************************************************************)
Prices == {10}

Admin(rows) ==
    \/ create_theater
    \/ \E t \in 1..MaxTheaters, price \in Prices : create_showtime(t, price)
    \/ \E t \in 1..MaxTheaters, rs \in RowLists(rows), n \in 1..MaxSeatsPerRow :
          add_seats_to_theater(t, rs, n)

Arrive(requests) == \E p \in Workers, d \in requests : lookup_showtime(p, d)

Step(p) ==
    \/ check_seat(p)
    \/ check_available(p)
    \/ \E decline \in BOOLEAN : pay(p, decline)
    \/ commit(p)
    \/ emit(p)
    \/ return(p)

\* Requests are served concurrently.
Next == Admin({"A"}) \/ Arrive(ConcurrentRequests) \/ \E p \in Workers : Step(p)

Spec == Init /\ [][Next]_vars

\* Sequential use: a request is accepted only while no other is being served.
NoRequestInProgress == \A p \in Workers : pc[p] = "idle"

NextSeq ==
    \/ NoRequestInProgress /\ Admin(Rows)
    \/ NoRequestInProgress /\ Arrive(Requests)
    \/ \E p \in Workers : Step(p)

SpecSeq == Init /\ [][NextSeq]_vars

\* The same requests with the scheduling the server provides: a request that
\* can take a step eventually takes one.
FairSpec == Spec /\ \A p \in Workers : WF_vars(Step(p))

(***************************************************************************)
(* Properties.  They read the tables and the responses directly, never     *)
(* through the operators that model the handlers' queries.                 *)
(***************************************************************************)
\* Booking rows for a (showtime, seat code) pair.
BookingsOf(showtime_id, seat_code) ==
    { i \in DOMAIN bookings : /\ bookings[i].showtime_id = showtime_id
                              /\ bookings[i].seat_code = seat_code }

\* The seat code is registered for the theater.
Registered(theater_id, code) ==
    \E s \in DOMAIN seats : s.theater_id = theater_id /\ s.code = code

ShowtimeExists(showtime_id) == \E i \in DOMAIN showtimes : showtimes[i].id = showtime_id

TheaterOfShowtime(showtime_id) ==
    (CHOOSE r \in { showtimes[i] : i \in DOMAIN showtimes } : r.id = showtime_id).theater_id

\* C1: for every showtime and seat code at most one Booking row exists,
\* whatever the interleaving of the booking requests.
AtMostOneBookingPerSeat ==
    \A i, j \in DOMAIN bookings :
        (/\ bookings[i].showtime_id = bookings[j].showtime_id
         /\ bookings[i].seat_code = bookings[j].seat_code) => i = j

\* C2: the step in which the gateway reports failure ends the request with a
\* 400 response that carries the gateway's error text, and the request has
\* written no Booking row.
PaymentFailureWritesNothing ==
    [][\A p \in Workers :
         (calls'[p] = calls[p] + 1 /\ ~payment_response'[p].success) =>
            /\ pc'[p] = "done"
            /\ payment_response'[p].error \in {InvalidCardError, DeclinedError}
            /\ response'[p] = [status |-> 400,
                               body |-> [message |-> "Payment Failed",
                                         error |-> payment_response'[p].error]]
            /\ bookings' = bookings
            /\ new_booking'[p] = 0
            /\ \A i \in DOMAIN bookings : bookings[i].user_id # p
                                          \/ bookings[i].showtime_id # data[p].showtime_id
                                          \/ bookings[i].seat_code # data[p].seat_code]_vars

\* C2 witness: one request ended by a random decline, another by a malformed card.
PaymentFailureSeen ==
    \E p, q \in Workers :
        /\ pc[p] = "done" /\ calls[p] = 1
        /\ response[p].status = 400
        /\ response[p].body = [message |-> "Payment Failed", error |-> DeclinedError]
        /\ pc[q] = "done" /\ calls[q] = 1
        /\ response[q].body = [message |-> "Payment Failed", error |-> InvalidCardError]

\* C3: when the seat check of a request for an existing showtime finds the seat
\* code unregistered for the showtime's theater, the request ends with the 400
\* "does not exist" response and no Booking row is written.
UnregisteredSeatRejected ==
    [][\A p \in Workers :
         (/\ pc[p] = "seat" /\ pc'[p] # "seat"
          /\ ShowtimeExists(data[p].showtime_id)
          /\ ~Registered(TheaterOfShowtime(data[p].showtime_id), data[p].seat_code)) =>
            /\ pc'[p] = "done"
            /\ response'[p] =
                 [status |-> 400,
                  body |-> [message |-> "Seat " \o data[p].seat_code
                                        \o " does not exist in this theater!"]]
            /\ bookings' = bookings
            /\ new_booking'[p] = 0
            /\ calls'[p] = 0]_vars

\* C3 witness: a request rejected for a seat code that only another theater has.
SeatOfOtherTheaterRejected ==
    \E p \in Workers :
        /\ pc[p] = "done"
        /\ response[p].status = 400
        /\ response[p].body.message = "Seat A1 does not exist in this theater!"
        /\ ShowtimeExists(data[p].showtime_id)
        /\ ~Registered(TheaterOfShowtime(data[p].showtime_id), data[p].seat_code)
        /\ \E s \in DOMAIN seats : s.code = data[p].seat_code

\* C4: a request whose showtime id resolves to no Showtime row ends at once with
\* the 404 response, whatever its seat code and card, and writes no Booking row.
UnknownShowtimeNotFound ==
    [][\A p \in Workers :
         (/\ pc[p] = "idle" /\ pc'[p] # "idle"
          /\ ~ShowtimeExists(data'[p].showtime_id)) =>
            /\ pc'[p] = "done"
            /\ response'[p] = [status |-> 404, body |-> [message |-> "Showtime not found"]]
            /\ bookings' = bookings
            /\ events' = events
            /\ calls'[p] = 0
            /\ new_booking'[p] = 0]_vars

\* C4 witness: a 404 for a request whose seat is registered and whose card is
\* well formed, while another showtime exists.
UnknownShowtimeSeen ==
    \E p \in Workers :
        /\ pc[p] = "done"
        /\ response[p].status = 404
        /\ showtimes # <<>>
        /\ ~ShowtimeExists(data[p].showtime_id)
        /\ \E s \in DOMAIN seats : s.code = data[p].seat_code
        /\ data[p].card_details = [number |-> DigitsOfLength(CardNumberLength)]

\* C5: in sequential use a request for a booked (showtime, seat) ends with the
\* "already booked" response and a confirmed request leaves exactly one row for
\* its pair; a request for a registered seat with no row for its own showtime
\* fails only if its payment fails, even when the same seat code is booked for
\* another showtime.
SeatTakenPerShowtime ==
    \A p \in Workers :
        pc[p] = "done" =>
            LET rows == BookingsOf(data[p].showtime_id, data[p].seat_code) IN
            /\ response[p].status = 201 => Cardinality(rows) = 1
            /\ (response[p].status # 201 /\ rows # {}) =>
                  response[p] = [status |-> 400,
                                 body |-> [message |-> "Sorry, that seat is already booked!"]]
            /\ (/\ response[p].status # 201
                /\ rows = {}
                /\ ShowtimeExists(data[p].showtime_id)
                /\ Registered(TheaterOfShowtime(data[p].showtime_id), data[p].seat_code)) =>
                  /\ response[p].status = 400
                  /\ response[p].body.message = "Payment Failed"

\* C5 witness: seat booked for showtime 1 and then for showtime 2 of the same
\* theater, and a further request for showtime 1 turned away.
SecondShowtimeBookedFirstTaken ==
    \E p \in Workers :
        /\ pc[p] = "done"
        /\ response[p].body.message = "Sorry, that seat is already booked!"
        /\ data[p].showtime_id = 1
        /\ Len(showtimes) = 2
        /\ showtimes[1].theater_id = showtimes[2].theater_id
        /\ Len(bookings) = 2
        /\ bookings[1].showtime_id = 1 /\ bookings[2].showtime_id = 2
        /\ bookings[1].seat_code = data[p].seat_code
        /\ bookings[2].seat_code = data[p].seat_code

\* C6: for every (showtime, seat code) the seat_booked events broadcast, plus
\* the requests that have committed and not yet broadcast, are exactly as many
\* as the Booking rows: one event per committed booking, none before the
\* commit, none from a request that wrote no row.
OneBroadcastPerBooking ==
    /\ \A i \in DOMAIN events : events[i] \in [showtime_id : ShowtimeIds, seat_code : SeatCodes]
    /\ \A s \in ShowtimeIds, c \in SeatCodes :
          Cardinality({ i \in DOMAIN events :
                          events[i] = [showtime_id |-> s, seat_code |-> c] })
          + Cardinality({ p \in Workers : /\ pc[p] = "emit"
                                          /\ data[p].showtime_id = s
                                          /\ data[p].seat_code = c })
          = Cardinality(BookingsOf(s, c))

\* C6 witness: a confirmed request whose event has been broadcast, beside a
\* request that failed.
BroadcastSeen ==
    \E p, q \in Workers :
        /\ pc[p] = "done" /\ response[p].status = 201
        /\ events = <<[showtime_id |-> data[p].showtime_id, seat_code |-> data[p].seat_code]>>
        /\ pc[q] = "done" /\ response[q].status = 400

\* The card number is made of exactly 16 digits.
SixteenDigits(number) ==
    Len(number) = 16 /\ \A i \in DOMAIN number : number[i] \in DigitChars

\* C7: a card number that is not exactly 16 digits is refused with the
\* invalid-card error, and only a card number of exactly 16 digits is accepted.
OnlySixteenDigitsAccepted ==
    \A p \in Workers :
        calls[p] = 1 =>
            LET number == IF "number" \in DOMAIN data[p].card_details
                          THEN data[p].card_details.number ELSE <<>> IN
            /\ ~SixteenDigits(number) =>
                  /\ ~payment_response[p].success
                  /\ payment_response[p].error = InvalidCardError
            /\ payment_response[p].success => SixteenDigits(number)

\* C8: within one theater no two Seat rows share a code.
UniqueSeatCodes ==
    \A s \in DOMAIN seats :
        /\ seats[s] = 1
        /\ \A t \in DOMAIN seats : (t.theater_id = s.theater_id /\ t.code = s.code) => t = s

\* C9: the gateway is called at most once per request, and only from the
\* point reached by passing, in order, the showtime lookup, the seat check and
\* the availability check; a request that fails one of them ends there with
\* no call, no Booking row and no broadcast.
PaymentOnlyAfterChecks ==
    [][\A p \in Workers :
         /\ calls'[p] <= 1
         /\ calls'[p] > calls[p] => pc[p] = "pay"
         /\ (pc'[p] = "pay" /\ pc[p] # "pay") =>
               /\ pc[p] = "avail"
               /\ BookingsOf(data[p].showtime_id, data[p].seat_code) = {}
         /\ (pc'[p] = "avail" /\ pc[p] # "avail") =>
               /\ pc[p] = "seat"
               /\ Registered(TheaterOfShowtime(data[p].showtime_id), data[p].seat_code)
         /\ (pc'[p] = "seat" /\ pc[p] # "seat") =>
               /\ pc[p] = "idle"
               /\ ShowtimeExists(data'[p].showtime_id)
         /\ (pc[p] \in {"idle", "seat", "avail"} /\ pc'[p] = "done") =>
               /\ calls'[p] = 0
               /\ new_booking'[p] = 0
               /\ bookings' = bookings
               /\ events' = events
               /\ issued' = issued]_vars

\* C9 witness: a request turned away by the availability check without a call,
\* beside one that paid.
TakenWithoutPayment ==
    \E p, q \in Workers :
        /\ pc[p] = "done" /\ calls[p] = 0
        /\ response[p].body.message = "Sorry, that seat is already booked!"
        /\ pc[q] = "done" /\ calls[q] = 1

\* The gateway has accepted the payment of the request.
Charged(p) == calls[p] = 1 /\ payment_response[p].success

\* The request has committed its one Booking row.
BookedFor(p) ==
    /\ Cardinality({ i \in DOMAIN bookings :
                       /\ bookings[i].user_id = p
                       /\ bookings[i].showtime_id = data[p].showtime_id
                       /\ bookings[i].seat_code = data[p].seat_code }) = 1
    /\ new_booking[p] \in DOMAIN bookings
    /\ bookings[new_booking[p]] =
         [id |-> new_booking[p], seat_code |-> data[p].seat_code,
          user_id |-> p, showtime_id |-> data[p].showtime_id]

\* The request has answered 201 with the row's id and the receipt.
Confirmed(p) ==
    /\ pc[p] = "done"
    /\ BookedFor(p)
    /\ response[p] = [status |-> 201,
                      body |-> [message |-> "Booking confirmed!",
                                booking_id |-> new_booking[p],
                                transaction_id |-> payment_response[p].transaction_id]]

====
